---------------------------- MODULE Spec2Model ----------------------------
(***************************************************************************)
(* Model of process.py (ehansis/MortalityENW): the classification of ICD   *)
(* codes into disease categories (map_icd_codes_to_categories), the        *)
(* per-year aggregation of load_20th_century and the tree layout of        *)
(* data_to_tree.                                                           *)
(*                                                                         *)
(* Python strings are sequences of one-character strings, compared by      *)
(* code point as Python compares them.  Fractions are exact rationals: a   *)
(* fraction of a year is an integer numerator over that year's total.      *)
(***************************************************************************)
EXTENDS Integers, Sequences, FiniteSets, TLC

VARIABLES
    \* map_icd_codes_to_categories
    map_df,          \* the "code" column of df, one entry per row
    map_version,     \* icd_version
    map_pc,          \* "call" | "returned" | "raised"
    map_lp_code,     \* lp_code_map once computed: code -> normalized code
    map_category,    \* df["category"] per code, as left by the call
    map_error,       \* the exception that ended the call, or "none"
    \* load_20th_century
    raw_data,        \* per file of file_names_20th_century, its icdN sheets
    file_name,       \* index into file_names_20th_century, 0 before the loop
    top_n,           \* the configured top_n_codes
    df_all_years,    \* the file's concatenated sheets: rows code/year/sex/age/n
    year_idx,        \* position in df_all_years["year"].unique()
    load_pc,         \* "start" | "years" | "done" | "raised"
    load_stage,      \* what the last step did, or the line that raised
    load_error,      \* the exception that ended the run, or "none"
    df_year,         \* the year batch last processed, with desc and category
    kept_codes,      \* the codes last retained
    out,             \* the list of aggregated batches
    \* data_to_tree
    tree_df,         \* the table passed in: rows year/age/category/desc/n
    tree_pc,         \* "start" | "frac" | "older" | "cum" | "aligned" | "returned" | "raised"
    tree_stage,      \* the statement that raised, or the last block completed
    tree_rows,       \* df as the last block left it; dis once returned
    tree_cat,        \* cat once returned
    tree_meta,       \* meta once returned
    tree_error       \* the exception that ended the call, or "none"

map_vars  == <<map_df, map_version, map_pc, map_lp_code, map_category, map_error>>
load_vars == <<raw_data, file_name, top_n, df_all_years, year_idx, load_pc, load_stage, load_error,
               df_year, kept_codes, out>>
tree_vars == <<tree_df, tree_pc, tree_stage, tree_rows, tree_cat, tree_meta, tree_error>>
vars == <<map_vars, load_vars, tree_vars>>

-----------------------------------------------------------------------------
(* Python strings *)

\* The printable ASCII characters in code point order, from " " (32); the
\* quote, the backslash and the backtick are spelled out.
Ascii ==
  <<" ","!","<quote>","#","$","%","&","'","(",")","*","+",",","-",".","/","0","1","2","3","4","5","6","7","8","9",":",";","<","=",">","?","@","A","B","C","D","E","F","G","H","I","J","K","L","M","N","O","P","Q","R","S","T","U","V","W","X","Y","Z","[","<backslash>","]","^","_","<backtick>","a","b","c","d","e","f","g","h","i","j","k","l","m","n","o","p","q","r","s","t","u","v","w","x","y","z","{","|","}","~">>

\* ord(c)
RECURSIVE OrdUpTo(_)
OrdUpTo(k) == IF k = 0 THEN <<>> ELSE OrdUpTo(k - 1) @@ (Ascii[k] :> 31 + k)
OrdTable == OrdUpTo(Len(Ascii))
Ord(c) == OrdTable[c]

MinOf(S) == CHOOSE x \in S : \A y \in S : x <= y

\* a[i:] <= b[i:] for Python str: the first differing character decides, a
\* proper prefix is smaller.
RECURSIVE StrLeqFrom(_, _, _)
StrLeqFrom(a, b, i) ==
  IF i > Len(a) THEN TRUE
  ELSE IF i > Len(b) THEN FALSE
  ELSE IF a[i] = b[i] THEN StrLeqFrom(a, b, i + 1)
  ELSE Ord(a[i]) < Ord(b[i])

\* a <= b for Python str
StrLeq(a, b) == StrLeqFrom(a, b, 1)

\* a < b for Python str
StrLess(a, b) == StrLeq(a, b) /\ a # b

Digits == <<"0","1","2","3","4","5","6","7","8","9">>
IsDigit(c) == \E i \in 1..10 : Digits[i] = c
DigitVal(c) == (CHOOSE i \in 1..10 : Digits[i] = c) - 1

\* int(s) for a string of decimal digits
RECURSIVE ToInt(_)
ToInt(s) == IF s = <<>> THEN 0
            ELSE 10 * ToInt(SubSeq(s, 1, Len(s) - 1)) + DigitVal(s[Len(s)])

\* f"{i:03d}" for 0 <= i <= 999
Format03d(i) == <<Digits[(i \div 100) + 1], Digits[((i \div 10) % 10) + 1], Digits[(i % 10) + 1]>>

\* s.lstrip(ch)
RECURSIVE LStrip(_, _)
LStrip(s, ch) == IF s # <<>> /\ s[1] = ch THEN LStrip(Tail(s), ch) ELSE s

\* s.rstrip(ch)
RECURSIVE RStrip(_, _)
RStrip(s, ch) == IF s # <<>> /\ s[Len(s)] = ch THEN RStrip(SubSeq(s, 1, Len(s) - 1), ch) ELSE s

\* s.strip(ch)
Strip(s, ch) == RStrip(LStrip(s, ch), ch)

\* s.split(sep) for a one-character separator: the pieces between separators
RECURSIVE SplitOn(_, _)
SplitOn(s, sep) ==
  LET hits == {i \in 1..Len(s) : s[i] = sep}
  IN  IF hits = {} THEN <<s>>
      ELSE <<SubSeq(s, 1, MinOf(hits) - 1)>> \o SplitOn(SubSeq(s, MinOf(hits) + 1, Len(s)), sep)

\* s.split(): the runs of non-blank characters
SplitBlank(s) == SelectSeq(SplitOn(s, " "), LAMBDA t : t # <<>>)

\* s[:-1]
DropLast(s) == IF s = <<>> THEN <<>> ELSE SubSeq(s, 1, Len(s) - 1)

\* the length of the match of re.search("^[0-9]+", s), 0 when there is none
DigitRunLen(s) ==
  IF \A i \in 1..Len(s) : IsDigit(s[i]) THEN Len(s)
  ELSE MinOf({i \in 1..Len(s) : ~IsDigit(s[i])}) - 1

-----------------------------------------------------------------------------
(* Configuration *)

\* years to keep: 1915, 1920, ..., 2000
years == [i \in 1..18 |-> 1910 + 5 * i]

top_n_codes == 100

\* The value of a comprehension as a list
ListOf(f) == <<>> \o f

\* The lists of a list of lists, one after the other
RECURSIVE Flatten(_)
Flatten(groups) ==
  IF groups = <<>> THEN <<>>
  ELSE IF Len(groups) = 1 THEN groups[1]
  ELSE Flatten(SubSeq(groups, 1, Len(groups) \div 2))
       \o Flatten(SubSeq(groups, (Len(groups) \div 2) + 1, Len(groups)))

-----------------------------------------------------------------------------
(* Mapping from ICD codes to categories *)

ICD_CATEGORIES ==
     "Infectious diseases" :> (
         9 :> <<"1","-","1","3","9">>   \* "1-139"
      @@ 8 :> <<"1","-","1","3","6">>   \* "1-136"
      @@ 7 :> <<"1","-","1","3","8",","," ","5","7","1",","," ","6","9","6",","," ","7","6","4">>   \* "1-138, 571, 696, 764"
      @@ 6 :> <<"1","-","1","3","8",","," ","5","7","1",","," ","6","9","6",","," ","6","9","7",","," ","7","6","4">>   \* "1-138, 571, 696, 697, 764"
      @@ 5 :> <<"1","-","3","2",","," ","3","4","-","4","4","a",","," ","4","4","c","-","4","4","d",","," ","1","1","9","-","1","2","0",","," ","1","7","7">>   \* "1-32, 34-44a, 44c-44d, 119-120, 177"
      @@ 4 :> <<"1","-","1","0",","," ","1","2","-","4","4",","," ","7","9","-","8","0",","," ","1","1","9","-","1","2","0",","," ","1","7","7">>   \* "1-10, 12-44, 79-80, 119-120, 177"
      @@ 3 :> <<"1","-","1","0",","," ","1","2","-","4","2",","," ","7","1",","," ","7","2",","," ","7","6",","," ","1","1","3","-","1","1","6",","," ","1","2","1",","," ","1","7","5">>   \* "1-10, 12-42, 71, 72, 76, 113-116, 121, 175"
      @@ 2 :> <<"1","-","9",","," ","1","1","-","2","5",","," ","2","8","-","3","5",","," ","3","7","-","3","8",","," ","6","2",","," ","1","0","4","A",","," ","1","0","5","A",","," ","1","0","6",","," ","1","0","7",","," ","1","1","2",","," ","1","6","4">>   \* "1-9, 11-25, 28-35, 37-38, 62, 104A, 105A, 106, 107, 112, 164"
     )
  @@ "Respiratory diseases" :> (
         9 :> <<"4","6","0","-","5","1","9">>   \* "460-519"
      @@ 8 :> <<"4","6","0","-","5","1","9">>   \* "460-519"
      @@ 7 :> <<"2","4","0",","," ","2","4","1",","," ","4","7","0","-","5","2","7">>   \* "240, 241, 470-527"
      @@ 6 :> <<"2","4","0",","," ","2","4","1",","," ","4","7","0","-","5","2","7">>   \* "240, 241, 470-527"
      @@ 5 :> <<"3","3",","," ","1","0","4","-","1","1","4",","," ","1","1","5","b","-","1","1","5","d">>   \* "33, 104-114, 115b-115d"
      @@ 4 :> <<"1","1",","," ","1","0","4","-","1","1","4",","," ","1","1","5","(","3",")">>   \* "11, 104-114, 115(3)"
      @@ 3 :> <<"1","1",","," ","9","7","-","1","0","7",","," ","1","0","9">>   \* "11, 97-107, 109"
      @@ 2 :> <<"1","0",","," ","8","6","-","8","7",","," ","8","9","-","9","8",","," ","1","0","0">>   \* "10, 86-87, 89-98, 100"
     )
  @@ "Injury and poisoning" :> (
         9 :> <<"8","0","0","-","9","9","9">>   \* "800-999"
      @@ 8 :> <<"8","0","0","-","9","9","9">>   \* "800-999"
      @@ 7 :> <<"2","4","2",","," ","2","4","5",","," ","3","6","5",","," ","8","0","0","-","9","9","9">>   \* "242, 245, 365, 800-999"
      @@ 6 :> <<"2","4","2",","," ","2","4","5",","," ","3","6","5",","," ","8","0","0","-","9","9","9">>   \* "242, 245, 365, 800-999"
      @@ 5 :> <<"6","6","B",","," ","7","8",","," ","7","9",","," ","1","6","3","-","1","7","6",","," ","1","7","8","-","1","9","8">>   \* "66B, 78, 79, 163-176, 178-198"
      @@ 4 :> <<"7","7",","," ","1","6","3","-","1","7","6",","," ","1","7","8","-","1","9","8">>   \* "77, 163-176, 178-198"
      @@ 3 :> <<"6","7",","," ","1","6","3",","," ","1","6","5","-","1","7","4",","," ","1","7","6","-","1","9","9",","," ","2","0","1","-","2","0","3">>   \* "67, 163, 165-174, 176-199, 201-203"
      @@ 2 :> <<"5","7","-","5","8",","," ","1","5","3",","," ","1","5","5","-","1","6","3",","," ","1","6","5","-","1","8","6">>   \* "57-58, 153, 155-163, 165-186"
     )
  @@ "Circulatory diseases" :> (
         9 :> <<"3","9","0","-","4","5","9">>   \* "390-459"
      @@ 8 :> <<"3","9","0","-","4","5","9",","," ","7","8","2">>   \* "390-459, 782"
      @@ 7 :> <<"3","3","0","-","3","3","4",","," ","4","0","0","-","4","5","4",","," ","4","5","6","-","4","6","8",","," ","7","8","2">>   \* "330-334, 400-454, 456-468, 782"
      @@ 6 :> <<"3","3","0","-","3","3","4",","," ","4","0","0","-","4","5","4",","," ","4","5","6","-","4","6","8",","," ","7","8","2">>   \* "330-334, 400-454, 456-468, 782"
      @@ 5 :> <<"5","8",","," ","8","3","a","-","8","3","c",","," ","8","7","a",","," ","9","0","-","9","7",","," ","9","9","-","1","0","3",","," ","2","0","0">>   \* "58, 83a-83c, 87a, 90-97, 99-103, 200"
      @@ 4 :> <<"5","6",","," ","8","2","a","-","8","2","b",","," ","8","7","a",","," ","9","0","-","9","7",","," ","9","9","-","1","0","3",","," ","2","0","0">>   \* "56, 82a-82b, 87a, 90-97, 99-103, 200"
      @@ 3 :> <<"5","1",","," ","7","4",","," ","8","1",","," ","8","3",","," ","8","7","-","9","6",","," ","2","0","5">>   \* "51, 74, 81, 83, 87-96, 205"
      @@ 2 :> <<"4","7",","," ","6","4",","," ","6","5",","," ","7","2",","," ","7","7","-","8","5">>   \* "47, 64, 65, 72, 77-85"
     )
  @@ "Digestive diseases" :> (
         9 :> <<"5","2","0","-","5","7","9">>   \* "520-579"
      @@ 8 :> <<"4","4","4",".","2",","," ","5","2","0","-","5","7","7">>   \* "444.2, 520-577"
      @@ 7 :> <<"5","3","0","-","5","7","0",","," ","5","7","2","-","5","8","7">>   \* "530-570, 572-587"
      @@ 6 :> <<"5","3","0","-","5","7","0",","," ","5","7","2","-","5","8","7">>   \* "530-570, 572-587"
      @@ 5 :> <<"1","1","6","-","1","1","8",","," ","1","2","1","-","1","2","9">>   \* "116-118, 121-129"
      @@ 4 :> <<"1","1","5","a",","," ","1","1","6","-","1","1","8",","," ","1","2","1","-","1","2","9">>   \* "115a, 116-118, 121-129"
      @@ 3 :> <<"1","0","8",","," ","1","1","0","-","1","1","2",","," ","1","1","7","-","1","2","0",","," ","1","2","2","-","1","2","7">>   \* "108, 110-112, 117-120, 122-127"
      @@ 2 :> <<"9","9",","," ","1","0","1","-","1","0","3",","," ","1","0","4","B","-","1","0","4","H",","," ","1","0","5","B","-","1","0","5","H",","," ","1","0","8","-","1","1","1",","," ","1","1","3","-","1","1","8">>   \* "99, 101-103, 104B-104H, 105B-105H, 108-111, 113-118"
     )
  @@ "Cancer" :> (
         9 :> <<"1","4","0","-","2","3","9">>   \* "140-239"
      @@ 8 :> <<"1","4","0","-","2","3","9">>   \* "140-239"
      @@ 7 :> <<"1","4","0","-","2","2","0",","," ","2","2","2","-","2","3","9",","," ","2","9","4">>   \* "140-220, 222-239, 294"
      @@ 6 :> <<"1","4","0","-","2","2","0",","," ","2","2","2","-","2","3","9",","," ","2","9","4">>   \* "140-220, 222-239, 294"
      @@ 5 :> <<"4","4","b",","," ","4","5","-","5","7",","," ","7","4">>   \* "44b, 45-57, 74"
      @@ 4 :> <<"4","5","-","5","5",","," ","7","2">>   \* "45-55, 72"
      @@ 3 :> <<"4","3","-","5","0",","," ","6","5",","," ","8","4","(","2",")",","," ","1","3","7",","," ","1","3","9">>   \* "43-50, 65, 84(2), 137, 139"
      @@ 2 :> <<"3","9","-","4","6",","," ","5","3",","," ","7","4","c",","," ","1","2","9">>   \* "39-46, 53, 74c, 129"
     )

\* ICD_CATEGORIES.items(): the categories in the order the dict declares them
CategoryNames ==
  <<"Infectious diseases", "Respiratory diseases", "Injury and poisoning",
    "Circulatory diseases", "Digestive diseases", "Cancer">>

OTHER_LABEL == "Other diseases"

\* order and left/right sorting of categories
CATEGORY_ORDER ==
     "Infectious diseases" :> -1
  @@ "Respiratory diseases" :> -2
  @@ "Injury and poisoning" :> -3
  @@ "Circulatory diseases" :> 1
  @@ "Cancer" :> 2
  @@ "Digestive diseases" :> 3
  @@ OTHER_LABEL :> 4

\* The outcome of a call that returns a string or raises.
Value(s) == [ok |-> TRUE, val |-> s, error |-> "none"]
Raise(e) == [ok |-> FALSE, val |-> <<>>, error |-> e]

\* left_pad_code without the zero padding: the number as int() prints it
left_pad_code_Unpadded(code) ==
  LET s == LStrip(code, "0")
      k == DigitRunLen(s)
      i == ToInt(SubSeq(s, 1, k))
  IN  IF k = 0 THEN Raise("AttributeError")
      ELSE IF ~(0 < i /\ i <= 999) THEN Raise("AssertionError")
      ELSE Value(s)

\* Left-pad the leading numerical part of a code with zeros to 3 digits.
\* No leading digit: re.search returns None and .group() raises
\* AttributeError.
left_pad_code(code) ==
  LET s == LStrip(code, "0")
      k == DigitRunLen(s)
      i == ToInt(SubSeq(s, 1, k))
  IN  IF k = 0 THEN Raise("AttributeError")
      ELSE IF ~(0 < i /\ i <= 999) THEN Raise("AssertionError")
      ELSE Value(Format03d(i) \o SubSeq(s, k + 1, Len(s)))

\* df["code"].unique(): the distinct codes in order of first appearance
RECURSIVE Unique(_)
Unique(col) ==
  IF col = <<>> THEN <<>>
  ELSE LET r == Unique(SubSeq(col, 1, Len(col) - 1))
       IN  IF \E i \in 1..Len(r) : r[i] = col[Len(col)] THEN r
           ELSE Append(r, col[Len(col)])

\* One entry of lp_code_map: from ICD6 on the last digit is dropped, before
\* that the code is left-padded.
NormalizeCode(c, icd_version) ==
  IF icd_version >= 6 THEN Value(DropLast(c)) ELSE left_pad_code(c)

\* [c.strip().strip(",") for c in codes.split()]
RangeTokens(codes) ==
  LET parts == SplitBlank(codes)
  IN  [i \in 1..Len(parts) |-> Strip(Strip(parts[i], " "), ",")]

\* The interval one token selects: lp_code >= lo and lp_code <= hi, with
\* lo = left_pad_code(start_code) and hi = left_pad_code(end_code) + "z".
\* A token with more than one "-" does not unpack into two codes.
TokenRange(code) ==
  LET parts == SplitOn(code, "-")
      lo == left_pad_code(parts[1])
      hi == left_pad_code(IF Len(parts) = 1 THEN code ELSE parts[2])
  IN  IF Len(parts) > 2 THEN [error |-> "ValueError", lo |-> <<>>, hi |-> <<>>]
      ELSE IF ~lo.ok THEN [error |-> lo.error, lo |-> <<>>, hi |-> <<>>]
      ELSE IF ~hi.ok THEN [error |-> hi.error, lo |-> <<>>, hi |-> <<>>]
      ELSE [error |-> "none", lo |-> lo.val, hi |-> hi.val \o <<"z">>]

\* row_sel with the start of the interval excluded
InRange_ExclusiveStart(lp_code, r) == StrLess(r.lo, lp_code) /\ StrLeq(lp_code, r.hi)

\* row_sel for one row
InRange(lp_code, r) == StrLeq(r.lo, lp_code) /\ StrLeq(lp_code, r.hi)

\* The intervals of one category's tokens for one revision, in token order
RECURSIVE TokenRanges(_)
TokenRanges(tokens) ==
  IF tokens = <<>> THEN <<>>
  ELSE <<TokenRange(tokens[1])>> \o TokenRanges(SubSeq(tokens, 2, Len(tokens)))

\* The first k categories' intervals for revision v
RECURSIVE CategoryRanges(_, _)
CategoryRanges(v, k) ==
  IF k = 0 THEN <<>>
  ELSE CategoryRanges(v, k - 1) @@
       (CategoryNames[k] :> TokenRanges(RangeTokens(ICD_CATEGORIES[CategoryNames[k]][v])))

RECURSIVE RangeTable(_)
RangeTable(v) ==
  IF v < 2 THEN <<>>
  ELSE RangeTable(v - 1) @@ (v :> CategoryRanges(v, Len(CategoryNames)))

\* mappings[f"ICD-{icd_version}"] of every category, tokenized
ICD_RANGES == RangeTable(9)

\* df.loc[row_sel, "category"] = category
RECURSIVE Assign(_, _, _)
Assign(column, row_sel, category) ==
  IF row_sel = {} THEN column
  ELSE LET c == CHOOSE x \in row_sel : TRUE
       IN  Assign([column EXCEPT ![c] = category], row_sel \ {c}, category)

\* The inner loop's body without the overlap assertion: the last category
\* whose token selects a code wins.
SetCategory_LastWins(st, category, r) ==
  LET row_sel == {c \in DOMAIN st.category : InRange(st.lp_code[c], r)}
  IN  IF st.error # "none" THEN st
      ELSE IF r.error # "none" THEN [st EXCEPT !.error = r.error]
      ELSE IF DOMAIN st.lp_code = {} THEN [st EXCEPT !.error = "TypeError"]
      ELSE [st EXCEPT !.category = Assign(st.category, row_sel, category)]

\* The body of the inner loop for one token of `category`: the row
\* selection, the overlap assertion, then the assignment.  st is the
\* call's state: the category and lp_code of every code, and the pending
\* exception.  Without codes df["code"].map({}) is a column of floats, and
\* its comparison with a string raises TypeError.
SetCategory(st, category, r) ==
  LET row_sel == {c \in DOMAIN st.category : InRange(st.lp_code[c], r)}
  IN  IF st.error # "none" THEN st
      ELSE IF r.error # "none" THEN [st EXCEPT !.error = r.error]
      ELSE IF DOMAIN st.lp_code = {} THEN [st EXCEPT !.error = "TypeError"]
      ELSE IF \E c \in row_sel : st.category[c] \notin {OTHER_LABEL, category}
           THEN [st EXCEPT !.error = "AssertionError"]
      ELSE [st EXCEPT !.category = Assign(st.category, row_sel, category)]

\* for code in <tokens>: ..., from token k on; an exception ends the loop
RECURSIVE ForTokens(_, _, _, _)
ForTokens(st, category, ranges, k) ==
  IF k > Len(ranges) THEN st
  ELSE LET next == SetCategory(st, category, ranges[k])
       IN  IF next.error # "none" THEN next
           ELSE ForTokens(next, category, ranges, k + 1)

\* for category, mappings in <items>: ..., over the categories in `order`
\* from the k-th on
RECURSIVE ForCategories(_, _, _, _)
ForCategories(st, icd_version, order, k) ==
  IF k > Len(order) THEN st
  ELSE LET next == ForTokens(st, order[k], ICD_RANGES[icd_version][order[k]], 1)
       IN  IF next.error # "none" THEN next
           ELSE ForCategories(next, icd_version, order, k + 1)

\* The first code of lp_code_map's comprehension that cannot be normalized
FirstBadCode(codes, icd_version) ==
  LET bad == {i \in 1..Len(codes) : ~NormalizeCode(codes[i], icd_version).ok}
  IN  IF bad = {} THEN 0 ELSE MinOf(bad)

\* df["category"] = OTHER_LABEL, for the first k codes
RECURSIVE DefaultColumn(_, _)
DefaultColumn(codes, k) ==
  IF k = 0 THEN <<>> ELSE DefaultColumn(codes, k - 1) @@ (codes[k] :> OTHER_LABEL)

\* {c: <normalized c> for c in df["code"].unique()}, for the first k codes
RECURSIVE LpCodeMap(_, _, _)
LpCodeMap(codes, icd_version, k) ==
  IF k = 0 THEN <<>>
  ELSE LpCodeMap(codes, icd_version, k - 1) @@
       (codes[k] :> NormalizeCode(codes[k], icd_version).val)

\* map_icd_codes_to_categories with the categories iterated in `order`
ClassifyInOrder(col, icd_version, order) ==
  LET codes == Unique(col)
      bad == FirstBadCode(codes, icd_version)
      default == DefaultColumn(codes, Len(codes))
  IN  IF bad # 0
      THEN [category |-> default, lp_code |-> <<>>,
            error |-> NormalizeCode(codes[bad], icd_version).error]
      ELSE ForCategories([category |-> default,
                          lp_code |-> LpCodeMap(codes, icd_version, Len(codes)),
                          error |-> "none"],
                         icd_version, order, 1)

\* Append a column 'category' to df containing disease categories
map_icd_codes_to_categories(col, icd_version) ==
  ClassifyInOrder(col, icd_version, CategoryNames)

-----------------------------------------------------------------------------
(* Bounded inputs of map_icd_codes_to_categories *)

\* the longest "code" column drawn from MapCodePool
MaxCodes == 2

\* Raw codes: three- and four-digit numeric codes, codes with a letter or
\* a decimal suffix, an out-of-range chapter, a code without a digit.
MapCodePool ==
  << <<"0","0","1">>, <<"1","3","9">>, <<"1","4","0">>,
     <<"0","0","1","0">>, <<"1","4","0","0">>, <<"0","9","9","0">>,
     <<"1","0","0","0">>, <<"9","9","5">>, <<"9">>,
     <<"4","4","b">>, <<"8","7","a">>, <<"4","4","4",".","2","0">>,
     <<"x","1">> >>

\* the codes "001", "009", "139", "140", "239"
ThreeDigitTable ==
  << <<"0","0","1">>, <<"0","0","9">>, <<"1","3","9">>, <<"1","4","0">>, <<"2","3","9">> >>

\* the codes "0010", "0090", "1390", "1400", "2390"
FourDigitTable ==
  << <<"0","0","1","0">>, <<"0","0","9","0">>, <<"1","3","9","0">>,
     <<"1","4","0","0">>, <<"2","3","9","0">> >>

MapPoolCodes == {MapCodePool[i] : i \in 1..Len(MapCodePool)}

MapTables ==
  UNION {[1..n -> MapPoolCodes] : n \in 0..MaxCodes}
    \cup {ThreeDigitTable, FourDigitTable}

Revisions == 2..9

-----------------------------------------------------------------------------
(* Idle values of the variables a specification does not use *)

MapIdle ==
  /\ map_df = <<>> /\ map_version = 9 /\ map_pc = "idle"
  /\ map_lp_code = <<>> /\ map_category = <<>> /\ map_error = "none"

LoadIdle ==
  /\ raw_data = <<>> /\ file_name = 0 /\ top_n = top_n_codes /\ df_all_years = <<>>
  /\ year_idx = 0
  /\ load_pc = "idle" /\ load_stage = "idle" /\ load_error = "none"
  /\ df_year = <<>> /\ kept_codes = {} /\ out = <<>>

TreeIdle ==
  /\ tree_df = <<>> /\ tree_pc = "idle" /\ tree_stage = "idle" /\ tree_rows = <<>>
  /\ tree_cat = <<>> /\ tree_meta = <<>> /\ tree_error = "none"

-----------------------------------------------------------------------------
(* map_icd_codes_to_categories(df, icd_version) *)

MapInit ==
  /\ map_df \in MapTables
  /\ map_version \in Revisions
  /\ map_pc = "call"
  /\ map_lp_code = <<>> /\ map_category = <<>> /\ map_error = "none"
  /\ LoadIdle /\ TreeIdle

\* The call runs to its end: every code has its category.
MapReturn ==
  /\ map_pc = "call"
  /\ LET r == map_icd_codes_to_categories(map_df, map_version)
     IN  /\ r.error = "none"
         /\ map_pc' = "returned"
         /\ map_lp_code' = r.lp_code
         /\ map_category' = r.category
         /\ map_error' = "none"
  /\ UNCHANGED <<map_df, map_version, load_vars, tree_vars>>

\* The call raises: a code that cannot be normalized, a table without
\* codes, or the overlap assertion.  df keeps the categories assigned
\* before the exception.
MapRaise ==
  /\ map_pc = "call"
  /\ LET r == map_icd_codes_to_categories(map_df, map_version)
     IN  /\ r.error # "none"
         /\ map_pc' = "raised"
         /\ map_lp_code' = r.lp_code
         /\ map_category' = r.category
         /\ map_error' = r.error
  /\ UNCHANGED <<map_df, map_version, load_vars, tree_vars>>

MapNext == MapReturn \/ MapRaise

SpecMap == MapInit /\ [][MapNext]_vars

file_names_20th_century ==
  <<
    <<"1","9","1","1","-","1","9","2","0","-","i","c","d","2",".","x","l","s">>,   \* "1911-1920-icd2.xls"
    <<"1","9","2","1","-","1","9","3","0","-","i","c","d","3",".","x","l","s">>,   \* "1921-1930-icd3.xls"
    <<"1","9","3","1","-","1","9","3","9","-","i","c","d","4",".","x","l","s">>,   \* "1931-1939-icd4.xls"
    <<"1","9","4","0","-","1","9","4","9","-","i","c","d","5",".","x","l","s">>,   \* "1940-1949-icd5.xls"
    <<"1","9","5","0","-","1","9","5","7","-","i","c","d","6",".","x","l","s">>,   \* "1950-1957-icd6.xls"
    <<"1","9","5","8","-","1","9","6","7","-","i","c","d","7",".","x","l","s","x">>,   \* "1958-1967-icd7.xlsx"
    <<"1","9","6","8","-","1","9","7","8","-","i","c","d","8",".","x","l","s">>,   \* "1968-1978-icd8.xls"
    <<"1","9","7","9","-","1","9","8","4","-","i","c","d","9","a",".","x","l","s","x">>,   \* "1979-1984-icd9a.xlsx"
    <<"1","9","8","5","-","1","9","9","3","-","i","c","d","9","b",".","x","l","s">>,   \* "1985-1993-icd9b.xls"
    <<"1","9","9","4","-","2","0","0","0","-","i","c","d","9","c",".","x","l","s">>    \* "1994-2000-icd9c.xls"
  >>

\* The ICD version a file name ends in: the last character of the part
\* before the first ".", or the one before it ('a', 'b', 'c' for ICD9);
\* -1 when that is no digit.
FileIcdVersion(name) ==
  LET stem == SplitOn(name, ".")[1]
      last == IF IsDigit(stem[Len(stem)]) THEN stem[Len(stem)] ELSE stem[Len(stem) - 1]
  IN  IF IsDigit(last) THEN DigitVal(last) ELSE -1

RECURSIVE SumN(_)
SumN(rows) == IF rows = <<>> THEN 0 ELSE rows[1].n + SumN(Tail(rows))

\* descriptions: code -> desc from the description sheet.  The two columns
\* are joined unless equal or the second is empty.
Descriptions(sheet) ==
  [c \in {Strip(sheet[i].code, " ") : i \in 1..Len(sheet)} |->
      LET s == sheet[CHOOSE i \in 1..Len(sheet) : Strip(sheet[i].code, " ") = c]
      IN  IF s.desc1 = s.desc2 \/ s.desc2 = "" THEN s.desc1
          ELSE s.desc1 \o ", " \o s.desc2]

\* df["code"].map(descriptions).fillna("Other") for one code
DescOf(code, descriptions) ==
  IF code \in DOMAIN descriptions THEN descriptions[code] ELSE "Other"

\* select data, map in metadata: the rows of one year with the stripped
\* code and the description
SelectYear(rows, year, descriptions) ==
  LET sel == SelectSeq(rows, LAMBDA r : r.year = year)
  IN  [i \in 1..Len(sel) |->
          [code |-> Strip(sel[i].code, " "), year |-> sel[i].year, sex |-> sel[i].sex,
           age |-> sel[i].age, n |-> sel[i].n,
           desc |-> DescOf(Strip(sel[i].code, " "), descriptions),
           category |-> OTHER_LABEL]]

\* (df["desc"] == "Other").sum() / len(df) < 0.05
DescGate(df) ==
  100 * Cardinality({i \in 1..Len(df) : df[i].desc = "Other"}) < 5 * Len(df)

\* The gate on the fraction of the deaths in the default category
CategoryGate_ByDeaths(df) ==
  100 * SumN(SelectSeq(df, LAMBDA r : r.category = OTHER_LABEL)) < 35 * SumN(df)

\* (df["category"] == OTHER_LABEL).sum() / len(df) < 0.35
CategoryGate(df) ==
  100 * Cardinality({i \in 1..Len(df) : df[i].category = OTHER_LABEL}) < 35 * Len(df)

\* The year's rows up to the second gate: where the run stands, the
\* exception if one was raised, and df as the run left it.
ClassifyYear(rows, year, icd_version, descriptions) ==
  LET df == SelectYear(rows, year, descriptions)
      m == map_icd_codes_to_categories([i \in 1..Len(df) |-> df[i].code], icd_version)
      mapped == [i \in 1..Len(df) |-> [df[i] EXCEPT !.category = m.category[df[i].code]]]
  IN  IF ~DescGate(df) THEN [stage |-> "desc_gate", error |-> "AssertionError", df |-> df]
      ELSE IF m.error # "none" THEN [stage |-> "map", error |-> m.error, df |-> mapped]
      ELSE IF ~CategoryGate(mapped)
           THEN [stage |-> "category_gate", error |-> "AssertionError", df |-> mapped]
      ELSE [stage |-> "classified", error |-> "none", df |-> mapped]

\* df.groupby("code")["n"].sum()
CodeTotals(df) ==
  [c \in {df[i].code : i \in 1..Len(df)} |-> SumN(SelectSeq(df, LAMBDA r : r.code = c))]

\* The codes kept when the sort puts the smallest totals first
KeptChoices_Ascending(df, n) ==
  LET total == CodeTotals(df)
      k == IF n < Cardinality(DOMAIN total) THEN n ELSE Cardinality(DOMAIN total)
  IN  {K \in SUBSET DOMAIN total :
          /\ Cardinality(K) = k
          /\ \A c \in K, d \in DOMAIN total \ K : total[c] <= total[d]}

\* kept_codes: the first n codes by descending total.  The sort is not
\* stable, so among equal totals any code may come first: every set of n
\* codes none of which has a smaller total than a code left out.
KeptChoices(df, n) ==
  LET total == CodeTotals(df)
      k == IF n < Cardinality(DOMAIN total) THEN n ELSE Cardinality(DOMAIN total)
  IN  {K \in SUBSET DOMAIN total :
          /\ Cardinality(K) = k
          /\ \A c \in K, d \in DOMAIN total \ K : total[c] >= total[d]}

\* map descriptions of other codes to category + ", other"
RelabelOthers(df, kept) ==
  [i \in 1..Len(df) |->
      IF df[i].code \in kept THEN df[i]
      ELSE [df[i] EXCEPT !.desc = df[i].category \o ", other"]]

StartsWith(s, p) == Len(s) >= Len(p) /\ SubSeq(s, 1, Len(p)) = p

\* f"{decade * 10}-{decade*10 + 9}" for a one-digit decade
DecadeLabel(decade) == <<Digits[decade + 1], "0", "-", Digits[decade + 1], "9">>

\* for decade in range(1, 8): ages starting with the decade's digit become
\* the ten-year group
RECURSIVE ForDecades(_, _)
ForDecades(age, decade) ==
  IF decade >= 8 THEN age
  ELSE ForDecades(IF StartsWith(age, <<Digits[decade + 1]>>) THEN DecadeLabel(decade) ELSE age,
                  decade + 1)

\* the age group of one row: "80+" for ages starting with "8", then the
\* ten-year groups
AgeGroup(age) ==
  ForDecades(IF StartsWith(age, <<"8">>) THEN <<"8", "0", "+">> ELSE age, 1)

RegroupAges(df) == [i \in 1..Len(df) |-> [df[i] EXCEPT !.age = AgeGroup(df[i].age)]]

\* df.groupby(["year", "age", "category", "desc"])["n"].sum().reset_index():
\* one row per key with the summed count.  The rows are kept as a set.
Aggregate(df) ==
  {[year |-> df[i].year, age |-> df[i].age, category |-> df[i].category, desc |-> df[i].desc,
    n |-> SumN(SelectSeq(df, LAMBDA r : /\ r.year = df[i].year /\ r.age = df[i].age
                                         /\ r.category = df[i].category /\ r.desc = df[i].desc))] :
      i \in 1..Len(df)}

-----------------------------------------------------------------------------
(* Bounded inputs of load_20th_century *)

\* the longest data table drawn from LoadRowPool
MaxRows == 3

\* The description sheet of the file (code, desc1, desc2)
DescriptionSheet ==
  << [code |-> <<"0","0","2","0">>, desc1 |-> "Typhoid fever", desc2 |-> "Typhoid fever"],
     [code |-> <<"0","0","3","0">>, desc1 |-> "Salmonella", desc2 |-> ""],
     [code |-> <<"0","0","2","1">>, desc1 |-> "Paratyphoid fever", desc2 |-> "A"],
     [code |-> <<"7","0","0","0">>, desc1 |-> "Senility", desc2 |-> ""],
     [code |-> <<"1","5","0","0">>, desc1 |-> "Malignant neoplasm", desc2 |-> "Oesophagus"] >>

\* Rows of the data sheets.  Codes 0020, 0030 and 0021 are infectious
\* diseases in every revision; 7000 is in no category from ICD-6 on and has
\* no chapter below 1000 before; 9999 has no description.
LoadRowPool ==
  { [code |-> <<"0","0","2","0">>, year |-> 1915, sex |-> "M", age |-> <<"0","1","-","0","4">>, n |-> 100],
    [code |-> <<"0","0","3","0">>, year |-> 1915, sex |-> "M", age |-> <<"0","1","-","0","4">>, n |-> 50],
    [code |-> <<"0","0","2","1">>, year |-> 1915, sex |-> "F", age |-> <<"0","1","-","0","4">>, n |-> 10],
    [code |-> <<"7","0","0","0">>, year |-> 1915, sex |-> "M", age |-> <<"0","1","-","0","4">>, n |-> 100],
    [code |-> <<"0","0","3","0">>, year |-> 1915, sex |-> "F", age |-> <<"1","0","-","1","4">>, n |-> 50],
    [code |-> <<"0","0","2","1">>, year |-> 1915, sex |-> "M", age |-> <<"1","5","-","1","9">>, n |-> 10],
    [code |-> <<"0","0","2","0">>, year |-> 1916, sex |-> "F", age |-> <<"8","5","+">>, n |-> 100],
    [code |-> <<"1","5","0","0">>, year |-> 1920, sex |-> "M", age |-> <<"8","0","-","8","4">>, n |-> 50],
    [code |-> <<"9","9","9","9">>, year |-> 1915, sex |-> "M", age |-> <<"<","1">>, n |-> 10] }

LoadTables == UNION {[1..k -> LoadRowPool] : k \in 0..MaxRows}

\* The configured top_n_codes, and a retention of one code
TopNChoices == {1, top_n_codes}

\* The icdN sheets of a workbook whose rows are `table`: icdN_1 with the
\* first row, icdN_2 with the others
TwoSheets(table) ==
  IF table = <<>> THEN << <<>>, <<>> >>
  ELSE << SubSeq(table, 1, 1), SubSeq(table, 2, Len(table)) >>

\* The rows of a file other than the varied one that has a retained year
CompanionTable ==
  << [code |-> <<"0","0","2","0">>, year |-> 1920, sex |-> "M",
      age |-> <<"2","0","-","2","4">>, n |-> 100] >>

\* The raw data directory: file f holds `sheets`, file c (if any) the
\* companion rows, every other file two sheets without rows
RawData(f, sheets, c) ==
  ListOf([k \in 1..Len(file_names_20th_century) |->
             IF k = f THEN sheets
             ELSE IF k = c THEN TwoSheets(CompanionTable)
             ELSE TwoSheets(<<>>)])

\* The directories read, of MaxRows rows at most: one file varied over the
\* tables in two sheets, or with a single icdN sheet; the file after it
\* (the first after the last) without rows or with the companion row
RawDataChoices ==
  UNION {{RawData(f, TwoSheets(t), 0) : t \in LoadTables}
         \cup {RawData(f, TwoSheets(t), (f % Len(file_names_20th_century)) + 1) :
                  t \in {u \in LoadTables : Len(u) + Len(CompanionTable) <= MaxRows}}
         \cup {RawData(f, <<t>>, c) :
                  t \in {u \in LoadTables : Len(u) <= 1},
                  c \in {0, (f % Len(file_names_20th_century)) + 1}} :
         f \in 1..Len(file_names_20th_century)}

-----------------------------------------------------------------------------
(* load_20th_century *)

\* df_all_years["year"].unique()
FileYears == Unique([i \in 1..Len(df_all_years) |-> df_all_years[i].year])

Retained(year) == \E i \in 1..Len(years) : years[i] = year

\* icd_version of the file being processed
FileVersion == FileIcdVersion(file_names_20th_century[file_name])

\* the loop over the years of the current file has run to its end, or no
\* file has been opened yet
YearsDone == load_pc = "start" \/ (load_pc = "years" /\ year_idx = Len(FileYears))

\* out = []
LoadInit ==
  /\ raw_data \in RawDataChoices
  /\ top_n \in TopNChoices
  /\ file_name = 0
  /\ df_all_years = <<>>
  /\ year_idx = 0
  /\ load_pc = "start" /\ load_stage = "start" /\ load_error = "none"
  /\ df_year = <<>> /\ kept_codes = {} /\ out = <<>>
  /\ MapIdle /\ TreeIdle

\* for file_name in file_names_20th_century: the next file is read, its
\* version taken from its name, its icdN sheets concatenated
OpenFile ==
  /\ YearsDone /\ file_name < Len(file_names_20th_century)
  /\ FileIcdVersion(file_names_20th_century[file_name + 1]) \in 2..9
  /\ Len(raw_data[file_name + 1]) >= 2
  /\ file_name' = file_name + 1
  /\ df_all_years' = Flatten(raw_data[file_name + 1])
  /\ year_idx' = 0
  /\ load_pc' = "years"
  /\ load_stage' = "opened"
  /\ UNCHANGED <<raw_data, top_n, load_error, df_year, kept_codes, out>>
  /\ UNCHANGED <<map_vars, tree_vars>>

\* assert len(sheet_data) >= 2 fails on the next file; the assertions on
\* icd_version hold for every name of file_names_20th_century
OpenFileRaise ==
  /\ YearsDone /\ file_name < Len(file_names_20th_century)
  /\ FileIcdVersion(file_names_20th_century[file_name + 1]) \in 2..9
  /\ Len(raw_data[file_name + 1]) < 2
  /\ file_name' = file_name + 1
  /\ load_pc' = "raised"
  /\ load_stage' = "sheet_data"
  /\ load_error' = "AssertionError"
  /\ UNCHANGED <<raw_data, top_n, df_all_years, year_idx, df_year, kept_codes, out>>
  /\ UNCHANGED <<map_vars, tree_vars>>

\* if year not in years: continue
SkipYear ==
  /\ load_pc = "years" /\ year_idx < Len(FileYears)
  /\ ~Retained(FileYears[year_idx + 1])
  /\ year_idx' = year_idx + 1
  /\ load_stage' = "skipped"
  /\ UNCHANGED <<raw_data, file_name, top_n, df_all_years, load_pc, load_error, df_year,
                 kept_codes, out>>
  /\ UNCHANGED <<map_vars, tree_vars>>

\* One retained year: classified, the top codes kept, the others relabeled,
\* ages regrouped, the aggregate appended to out.
LoadYear ==
  /\ load_pc = "years" /\ year_idx < Len(FileYears)
  /\ Retained(FileYears[year_idx + 1])
  /\ LET b == ClassifyYear(df_all_years, FileYears[year_idx + 1], FileVersion,
                           Descriptions(DescriptionSheet))
     IN  /\ b.error = "none"
         /\ \E kept \in KeptChoices(b.df, top_n) :
               /\ kept_codes' = kept
               /\ df_year' = RegroupAges(RelabelOthers(b.df, kept))
               /\ out' = Append(out, Aggregate(RegroupAges(RelabelOthers(b.df, kept))))
  /\ year_idx' = year_idx + 1
  /\ load_stage' = "appended"
  /\ UNCHANGED <<raw_data, file_name, top_n, df_all_years, load_pc, load_error>>
  /\ UNCHANGED <<map_vars, tree_vars>>

\* One retained year fails an assertion or the classification raises:
\* the run ends, nothing is appended.
LoadYearRaise ==
  /\ load_pc = "years" /\ year_idx < Len(FileYears)
  /\ Retained(FileYears[year_idx + 1])
  /\ LET b == ClassifyYear(df_all_years, FileYears[year_idx + 1], FileVersion,
                           Descriptions(DescriptionSheet))
     IN  /\ b.error # "none"
         /\ df_year' = b.df
         /\ load_stage' = b.stage
         /\ load_error' = b.error
  /\ load_pc' = "raised"
  /\ UNCHANGED <<raw_data, file_name, top_n, df_all_years, year_idx, kept_codes, out>>
  /\ UNCHANGED <<map_vars, tree_vars>>

\* After the last file: return pd.concat(out, ignore_index=True)
LoadReturn ==
  /\ YearsDone /\ file_name = Len(file_names_20th_century)
  /\ out # <<>>
  /\ load_pc' = "done"
  /\ load_stage' = "returned"
  /\ UNCHANGED <<raw_data, file_name, top_n, df_all_years, year_idx, load_error, df_year,
                 kept_codes, out>>
  /\ UNCHANGED <<map_vars, tree_vars>>

\* After the last file, no batch appended by any file: pd.concat of an
\* empty list raises ValueError
LoadConcatRaise ==
  /\ YearsDone /\ file_name = Len(file_names_20th_century)
  /\ out = <<>>
  /\ load_pc' = "raised"
  /\ load_stage' = "concat"
  /\ load_error' = "ValueError"
  /\ UNCHANGED <<raw_data, file_name, top_n, df_all_years, year_idx, df_year, kept_codes, out>>
  /\ UNCHANGED <<map_vars, tree_vars>>

LoadNext ==
  \/ OpenFile \/ OpenFileRaise
  \/ SkipYear \/ LoadYear \/ LoadYearRaise
  \/ LoadReturn \/ LoadConcatRaise

SpecLoad == LoadInit /\ [][LoadNext]_vars

-----------------------------------------------------------------------------
(* Numbers of data_to_tree *)

\* A float is an exact rational num/den in lowest terms with den > 0; the
\* result of 0/0 is NaN.
NaN == [num |-> 0, den |-> 0]

IsNaN(x) == x.den = 0

Abs(i) == IF i < 0 THEN -i ELSE i

\* np.sign
Sign(i) == IF i < 0 THEN -1 ELSE IF i > 0 THEN 1 ELSE 0

RECURSIVE GCD(_, _)
GCD(a, b) == IF b = 0 THEN a ELSE GCD(b, a % b)

\* num / den for counts num >= 0 or differences of them
Ratio(num, den) ==
  IF den = 0 THEN NaN
  ELSE LET g == GCD(Abs(num), den) IN [num |-> num \div g, den |-> den \div g]

FromInt(i) == [num |-> i, den |-> 1]

\* x + y
Plus(x, y) ==
  IF IsNaN(x) \/ IsNaN(y) THEN NaN
  ELSE Ratio(x.num * y.den + y.num * x.den, x.den * y.den)

\* x - y
Minus(x, y) ==
  IF IsNaN(x) \/ IsNaN(y) THEN NaN
  ELSE Ratio(x.num * y.den - y.num * x.den, x.den * y.den)

\* x < y, false when either is NaN
FracLess(x, y) == ~IsNaN(x) /\ ~IsNaN(y) /\ x.num * y.den < y.num * x.den

\* x * s for an integer s
Scaled(x, s) == IF IsNaN(x) THEN NaN ELSE [num |-> x.num * s, den |-> x.den]

\* x < 1.0e-9
BelowEps(x) == x.num <= (x.den - 1) \div 1000000000

\* x > 1.0e-9
AboveEps(x) == x.num > x.den \div 1000000000

\* Series.sum(): NaN is skipped, the sum of nothing is 0.  The sum is
\* exact, so the order of the additions does not matter; the column is
\* summed by halves.
RECURSIVE Sum(_)
Sum(col) ==
  IF col = <<>> THEN FromInt(0)
  ELSE IF Len(col) = 1 THEN (IF IsNaN(col[1]) THEN FromInt(0) ELSE col[1])
  ELSE Plus(Sum(SubSeq(col, 1, Len(col) \div 2)),
            Sum(SubSeq(col, (Len(col) \div 2) + 1, Len(col))))

\* df["frac"]
FracCol(rows) == ListOf([i \in 1..Len(rows) |-> rows[i].frac])

\* df["cumFrac"]
CumFracCol(rows) == ListOf([i \in 1..Len(rows) |-> rows[i].cumFrac])

\* Series.max() and Series.min() of a column without NaN
MaxFrac(col) == col[CHOOSE i \in 1..Len(col) : \A j \in 1..Len(col) : ~FracLess(col[i], col[j])]
MinFrac(col) == col[CHOOSE i \in 1..Len(col) : \A j \in 1..Len(col) : ~FracLess(col[j], col[i])]

\* str(i) for i >= 0, as a Python string
RECURSIVE IntStr(_)
IntStr(i) == IF i < 10 THEN <<Digits[i + 1]>> ELSE IntStr(i \div 10) \o <<Digits[(i % 10) + 1]>>

\* sorted(S) for a set of integers
SortedInts(S) ==
  ListOf([k \in 1..Cardinality(S) |-> CHOOSE x \in S : Cardinality({y \in S : y < x}) = k - 1])

\* sorted(S) for a set of Python strings
SortedStrs(S) ==
  ListOf([k \in 1..Cardinality(S) |->
             CHOOSE x \in S : Cardinality({y \in S : StrLess(y, x)}) = k - 1])

-----------------------------------------------------------------------------
(* Tables of data_to_tree *)

\* df["year"].unique(), sorted
TableYears(df) == SortedInts({df[i].year : i \in 1..Len(df)})

\* The rows of one year, in table order
YearGroup(df, year) == SelectSeq(df, LAMBDA r : r.year = year)

\* df.groupby("year"): the groups in ascending order of the year
YearGroups(df) ==
  LET ys == TableYears(df)
  IN  ListOf([k \in 1..Len(ys) |-> YearGroup(df, ys[k])])

\* df.loc[df["age"] == "<1", "age"] = "00-01"
RenameInfants(df) ==
  ListOf([i \in 1..Len(df) |->
             IF df[i].age = <<"<","1">> THEN [df[i] EXCEPT !.age = <<"0","0","-","0","1">>]
             ELSE df[i]])

\* ages_sorted = sorted(df["age"].unique())
ages_sorted(df) == SortedStrs({df[i].age : i \in 1..Len(df)})

\* age_map[s]: the band without leading zeros, "80+" as it is
age_map(s) ==
  IF s = <<"8","0","+">> THEN s
  ELSE LET p == SplitOn(s, "-")
       IN  IntStr(ToInt(p[1])) \o <<"-">> \o IntStr(ToInt(p[2]))

\* The trunk row's label for an age band
OlderDesc(age) ==
  IF \E i \in 1..Len(age) : age[i] = "-"
  THEN "older than " \o ToString(ToInt(SplitOn(age, "-")[2])) \o " years"
  ELSE "Impossible!"

-----------------------------------------------------------------------------
(* data_to_tree: fraction of deaths per year *)

\* The sum check against the number of years in the table
FracSumCheck_TableYears(df) ==
  LET diff == Minus(Sum(FracCol(df)), FromInt(Len(TableYears(df))))
  IN  BelowEps([diff EXCEPT !.num = Abs(diff.num)])

\* abs(df["frac"].sum() - len(years)) < 1.0e-9
FracSumCheck(df) ==
  LET diff == Minus(Sum(FracCol(df)), FromInt(Len(years)))
  IN  BelowEps([diff EXCEPT !.num = Abs(diff.num)])

\* The result of groupby("year").apply cannot be assigned to a column: with
\* a single year the one Series returned is stacked into a frame of one
\* row and as many columns as the table has rows
FracAssignRaises(df) == Len(TableYears(df)) = 1 /\ Len(df) >= 2

\* df["frac"]: n / g["n"].sum() within each year.  With a single year and
\* a single row the result is a frame of one column indexed by the year,
\* which aligns with no row: the fraction is NaN.
WithFrac(df) ==
  LET ys == TableYears(df)
      totals == ListOf([k \in 1..Len(ys) |-> SumN(YearGroup(df, ys[k]))])
  IN  ListOf([i \in 1..Len(df) |->
          [year |-> df[i].year, age |-> df[i].age, category |-> df[i].category,
           desc |-> df[i].desc, catIdx |-> CATEGORY_ORDER[df[i].category],
           frac |-> IF Len(ys) = 1 THEN NaN
                    ELSE Ratio(df[i].n, totals[CHOOSE k \in 1..Len(ys) : ys[k] = df[i].year])]])

\* The block up to the drop of column n: the ages renamed, catIdx mapped
\* in, the fractions computed and their sum checked.
FracStep(df) ==
  LET renamed == RenameInfants(df)
  IN  IF \E i \in 1..Len(renamed) : renamed[i].category \notin DOMAIN CATEGORY_ORDER
      THEN [stage |-> "catIdx", error |-> "AssertionError", df |-> renamed]
      ELSE IF FracAssignRaises(renamed)
           THEN [stage |-> "frac_assign", error |-> "ValueError", df |-> renamed]
      ELSE IF ~FracSumCheck(WithFrac(renamed))
           THEN [stage |-> "frac_sum", error |-> "AssertionError", df |-> WithFrac(renamed)]
      ELSE [stage |-> "frac", error |-> "none", df |-> WithFrac(renamed)]

-----------------------------------------------------------------------------
(* data_to_tree: deaths occurring at older ages *)

\* The residual computed from the whole instead of the previous residual
OlderFrac_FromOne(prev_frac_sum, age_frac_sum) == Minus(FromInt(1), age_frac_sum)

\* older_frac = prev_frac_sum - age_frac_sum
OlderFrac(prev_frac_sum, age_frac_sum) == Minus(prev_frac_sum, age_frac_sum)

\* df.loc[(year, age)]["frac"].sum() on the rows g of the year
AgeFracSum(g, age) == Sum(FracCol(SelectSeq(g, LAMBDA r : r.age = age)))

\* The rows the inner loop appends for one year, from the k-th band on
RECURSIVE older_ages_rows(_, _, _, _, _)
older_ages_rows(g, year, ages, k, prev_frac_sum) ==
  IF k > Len(ages) THEN <<>>
  ELSE LET older_frac == OlderFrac(prev_frac_sum, AgeFracSum(g, ages[k]))
       IN  << [year |-> year, age |-> ages[k], category |-> OlderDesc(ages[k]),
               desc |-> OlderDesc(ages[k]), catIdx |-> 0, frac |-> older_frac] >>
           \o older_ages_rows(g, year, ages, k + 1, older_frac)

\* df["sort_order"] = df["frac"] * np.sign(df["catIdx"])
sort_order(r) == Scaled(r.frac, Sign(r.catIdx))

\* by=["year", "age"] within a year
ByAge(r, s) == StrLess(r.age, s.age)

\* by=["year", "age", "catIdx"] within a year
ByAgeCat(r, s) ==
  \/ StrLess(r.age, s.age)
  \/ (r.age = s.age /\ r.catIdx < s.catIdx)

\* by=["year", "age", "catIdx", "sort_order"], the last descending,
\* within a year
ByAgeCatOrder(r, s) ==
  \/ StrLess(r.age, s.age)
  \/ (r.age = s.age /\ r.catIdx < s.catIdx)
  \/ (r.age = s.age /\ r.catIdx = s.catIdx /\ FracLess(sort_order(s), sort_order(r)))

\* r sorts before s by the columns `by`
Before(by, r, s) ==
  CASE by = "age" -> ByAge(r, s)
    [] by = "age,catIdx" -> ByAgeCat(r, s)
    [] by = "age,catIdx,sort_order" -> ByAgeCatOrder(r, s)

\* sort_values / sort_index on the rows of one year: a stable sort
StableSort(rows, by) ==
  LET n == Len(rows)
      rank == ListOf([i \in 1..n |->
                 Cardinality({j \in 1..n : \/ Before(by, rows[j], rows[i])
                                           \/ (~Before(by, rows[i], rows[j]) /\ j < i)}) + 1])
  IN  ListOf([k \in 1..n |-> rows[CHOOSE i \in 1..n : rank[i] = k]])

\* A stable sort of the table whose first key is the year
SortTable(df, by) ==
  LET gs == YearGroups(df)
  IN  Flatten(ListOf([k \in 1..Len(gs) |-> StableSort(gs[k], by)]))

\* The block that adds the trunk rows: df indexed and sorted by year and
\* age, one row appended per configured year and band, everything sorted.
\* A (year, age) without rows is a KeyError in the loop; a NaN fraction
\* fails the assertion after it.
OlderStep(df) ==
  LET ages == ages_sorted(df)
      sorted == SortTable(df, "age")
      older == Flatten(ListOf([k \in 1..Len(years) |->
                   older_ages_rows(YearGroup(sorted, years[k]), years[k], ages, 1, FromInt(1))]))
  IN  IF \E k \in 1..Len(years), a \in 1..Len(ages) :
             \A i \in 1..Len(df) : ~(df[i].year = years[k] /\ df[i].age = ages[a])
      THEN [stage |-> "older_loop", error |-> "KeyError", df |-> sorted]
      ELSE IF \E i \in 1..Len(df) : IsNaN(df[i].frac)
           THEN [stage |-> "older_null", error |-> "AssertionError", df |-> sorted]
      ELSE [stage |-> "older", error |-> "none",
            df |-> SortTable(sorted \o older, "age,catIdx")]

-----------------------------------------------------------------------------
(* data_to_tree: cumulative fractions *)

\* g.cumsum() within each (year, age) group, on the rows g of one year
WithCumFrac(g) ==
  ListOf([i \in 1..Len(g) |->
      [year |-> g[i].year, age |-> g[i].age, category |-> g[i].category, desc |-> g[i].desc,
       catIdx |-> g[i].catIdx, frac |-> g[i].frac,
       cumFrac |-> Sum(FracCol(SelectSeq(SubSeq(g, 1, i), LAMBDA r : r.age = g[i].age)))]])

\* The upper check with the bound itself excluded
CumFracMaxCheck_Below1(df) == FracLess(MaxFrac(CumFracCol(df)), FromInt(1))

\* df["cumFrac"].max() < 1 + 1.0e-9
CumFracMaxCheck(df) == BelowEps(Minus(MaxFrac(CumFracCol(df)), FromInt(1)))

\* df["cumFrac"].min() > 1.0e-9
CumFracMinCheck(df) == AboveEps(MinFrac(CumFracCol(df)))

\* The block that sorts large fractions towards the trunk and accumulates
CumStep(df) ==
  LET gs == YearGroups(SortTable(df, "age,catIdx,sort_order"))
      cum == Flatten(ListOf([k \in 1..Len(gs) |-> WithCumFrac(gs[k])]))
  IN  IF ~CumFracMinCheck(cum) THEN [stage |-> "cum_min", error |-> "AssertionError", df |-> cum]
      ELSE IF ~CumFracMaxCheck(cum)
           THEN [stage |-> "cum_max", error |-> "AssertionError", df |-> cum]
      ELSE [stage |-> "cum", error |-> "none", df |-> cum]

-----------------------------------------------------------------------------
(* data_to_tree: align_trunk *)

\* whether frac_sum_per_side has the key (a, side)
HasSide(g, a, side) == \E i \in 1..Len(g) : g[i].age = a /\ Sign(g[i].catIdx) = side

\* frac_sum_per_side.loc[a, side]
frac_sum_per_side(g, a, side) ==
  Sum(FracCol(SelectSeq(g, LAMBDA r : r.age = a /\ Sign(r.catIdx) = side)))

\* The shift accumulated from the right-hand sides
RECURSIVE prev_left_sum_RightSide(_, _, _)
prev_left_sum_RightSide(g, ages, k) ==
  IF k = 1 THEN FromInt(0)
  ELSE Plus(prev_left_sum_RightSide(g, ages, k - 1), frac_sum_per_side(g, ages[k - 1], 1))

\* prev_left_sum when the first loop reaches the k-th band
RECURSIVE prev_left_sum(_, _, _)
prev_left_sum(g, ages, k) ==
  IF k = 1 THEN FromInt(0)
  ELSE Plus(prev_left_sum(g, ages, k - 1), frac_sum_per_side(g, ages[k - 1], -1))

AgeIndex(ages, a) == CHOOSE k \in 1..Len(ages) : ages[k] = a

\* g after the first loop: cumFrac shifted
Shifted(g, ages) ==
  ListOf([i \in 1..Len(g) |->
      [g[i] EXCEPT !.cumFrac = Plus(g[i].cumFrac, prev_left_sum(g, ages, AgeIndex(ages, g[i].age)))]])

\* g.loc[a][g.loc[a, "catIdx"] == 0].iloc[0]
trunk_row(g, a) == g[MinOf({i \in 1..Len(g) : g[i].age = a /\ g[i].catIdx = 0})]

\* align_trunk(g) once both loops have run
align_trunk(g, ages) ==
  LET s == Shifted(g, ages)
  IN  ListOf([i \in 1..Len(s) |->
          [year |-> s[i].year, age |-> s[i].age, category |-> s[i].category,
           desc |-> s[i].desc, catIdx |-> s[i].catIdx, frac |-> s[i].frac,
           cumFrac |-> s[i].cumFrac,
           leftFrac |-> Minus(Minus(trunk_row(s, s[i].age).cumFrac, trunk_row(s, s[i].age).frac),
                              frac_sum_per_side(s, s[i].age, -1)),
           rightFrac |-> Plus(trunk_row(s, s[i].age).cumFrac,
                              frac_sum_per_side(s, s[i].age, 1))]])

\* df.groupby("year").apply(align_trunk): a band of a year without rows on
\* the left or on the right is a KeyError in frac_sum_per_side.
AlignStep(df, ages) ==
  IF \E i \in 1..Len(df), a \in 1..Len(ages) :
        \/ ~HasSide(YearGroup(df, df[i].year), ages[a], -1)
        \/ ~HasSide(YearGroup(df, df[i].year), ages[a], 1)
  THEN [stage |-> "align", error |-> "KeyError", df |-> df]
  ELSE LET gs == YearGroups(df)
       IN  [stage |-> "aligned", error |-> "none",
            df |-> Flatten(ListOf([k \in 1..Len(gs) |-> align_trunk(gs[k], ages)]))]

-----------------------------------------------------------------------------
(* data_to_tree: disease and category tables *)

\* dis["age"] = dis["age"].map(age_map)
MapAges(df) == ListOf([i \in 1..Len(df) |-> [df[i] EXCEPT !.age = age_map(df[i].age)]])

\* One row of the aggregate on (year, age, category) for the rows g of a year
CategoryRow(g, age, category) ==
  LET m == SelectSeq(g, LAMBDA r : r.age = age /\ r.category = category)
  IN  [year |-> m[1].year, age |-> age, category |-> category,
       frac |-> Sum(FracCol(m)),
       catIdx |-> m[1].catIdx,
       cumFrac |-> MaxFrac(CumFracCol(m)),
       leftFrac |-> MaxFrac(ListOf([i \in 1..Len(m) |-> m[i].leftFrac])),
       rightFrac |-> MaxFrac(ListOf([i \in 1..Len(m) |-> m[i].rightFrac]))]

\* The aggregate of one year, sorted by age and catIdx
CategoryRows(g) ==
  LET first == SelectSeq(ListOf([i \in 1..Len(g) |-> i]),
                         LAMBDA i : \A j \in 1..(i - 1) :
                                       ~(g[j].age = g[i].age /\ g[j].category = g[i].category))
  IN  StableSort(ListOf([k \in 1..Len(first) |->
                            CategoryRow(g, g[first[k]].age, g[first[k]].category)]),
                 "age,catIdx")

\* cat.groupby("catIdx")["category"].first().sort_index().values
MetaCategories(cat) ==
  LET idx == SortedInts({cat[i].catIdx : i \in 1..Len(cat)})
  IN  ListOf([k \in 1..Len(idx) |-> cat[MinOf({i \in 1..Len(cat) : cat[i].catIdx = idx[k]})].category])

\* dis, cat and meta as returned
ReturnStep(input, df, ages) ==
  LET gs == YearGroups(df)
      cat == Flatten(ListOf([k \in 1..Len(gs) |-> CategoryRows(gs[k])]))
  IN  [dis |-> MapAges(df),
       cat |-> MapAges(cat),
       meta |-> [years |-> TableYears(input),
                 ages |-> ListOf([k \in 1..Len(ages) |-> age_map(ages[k])]),
                 categories |-> MetaCategories(cat)]]

-----------------------------------------------------------------------------
(* Bounded inputs of data_to_tree *)

\* the largest count of a row of the varied year
MaxCount == 2

\* The rows of one age band: a diagnosis left of the trunk with count l and
\* one right of it with count r; below 0 the row is absent.
BandRows(age, l, r) ==
  (IF l >= 0 THEN << [age |-> age, category |-> "Infectious diseases",
                      desc |-> "Typhoid fever", n |-> l] >> ELSE <<>>)
  \o
  (IF r >= 0 THEN << [age |-> age, category |-> "Circulatory diseases",
                      desc |-> "Heart disease", n |-> r] >> ELSE <<>>)

Infants == <<"<","1">>
Children == <<"0","1","-","0","4">>

\* The rows of the varied year: two bands, each side absent or counted
FocusTemplates ==
  {BandRows(Infants, s[1], s[2]) \o BandRows(Children, s[3], s[4]) :
      s \in [1..4 -> -1..MaxCount]}

\* The rows of every other year
BaseTemplate == BandRows(Infants, 1, 1) \o BandRows(Children, 1, 1)

\* Bands "00-01" with fraction 0.6, "01-05" with 0.3 and "80+" with 0.1
ExampleTemplate ==
  BandRows(<<"0","0","-","0","1">>, 4, 8) \o BandRows(<<"0","1","-","0","5">>, 2, 4)
  \o BandRows(<<"8","0","+">>, 1, 1)

\* Several diagnoses per category and categories further from the trunk
MixedTemplate ==
  << [age |-> Infants, category |-> "Infectious diseases", desc |-> "Typhoid fever", n |-> 3],
     [age |-> Infants, category |-> "Infectious diseases", desc |-> "Measles", n |-> 1],
     [age |-> Infants, category |-> "Respiratory diseases", desc |-> "Pneumonia", n |-> 2],
     [age |-> Infants, category |-> "Circulatory diseases", desc |-> "Heart disease", n |-> 2],
     [age |-> Infants, category |-> "Circulatory diseases", desc |-> "Stroke", n |-> 5],
     [age |-> Infants, category |-> OTHER_LABEL, desc |-> "Other diseases, other", n |-> 1],
     [age |-> Children, category |-> "Cancer", desc |-> "Cancer, other", n |-> 2],
     [age |-> Children, category |-> "Injury and poisoning", desc |-> "Falls", n |-> 4] >>

\* A category CATEGORY_ORDER does not know
UnknownCategoryTemplate ==
  BaseTemplate \o << [age |-> Children, category |-> "Mental disorders",
                      desc |-> "Dementia", n |-> 1] >>

\* A band the other years do not have
ExtraBandTemplate == BaseTemplate \o BandRows(<<"1","0","-","1","9">>, 1, 1)

\* A year without deaths
EmptyYearTemplate == BandRows(Infants, 0, 0) \o BandRows(Children, 0, 0)

\* The rows of a template as rows of a year
YearBatch(year, template) ==
  ListOf([i \in 1..Len(template) |->
             [year |-> year, age |-> template[i].age, category |-> template[i].category,
              desc |-> template[i].desc, n |-> template[i].n]])

\* The table with the rows `first` for the first of the years ys and the
\* rows `rest` for each other year
TableOf(ys, first, rest) ==
  Flatten(ListOf([k \in 1..Len(ys) |-> YearBatch(ys[k], IF k = 1 THEN first ELSE rest)]))

\* The tables passed to data_to_tree: the configured years with one year
\* varied; the configured years without the last, with the last moved by a
\* year, and with a year without deaths after them; the first two of the
\* configured years; a single year.
TreeTables ==
  {TableOf(years, t, BaseTemplate) : t \in FocusTemplates}
    \cup {TableOf(years, ExampleTemplate, ExampleTemplate),
          TableOf(years, MixedTemplate, BaseTemplate),
          TableOf(years, UnknownCategoryTemplate, BaseTemplate),
          TableOf(years, ExtraBandTemplate, BaseTemplate),
          TableOf(SubSeq(years, 1, Len(years) - 1), BaseTemplate, BaseTemplate),
          TableOf(<<years[Len(years)] + 1>> \o SubSeq(years, 1, Len(years) - 1),
                  BaseTemplate, BaseTemplate),
          TableOf(<<years[Len(years)] + 5>> \o years, EmptyYearTemplate, BaseTemplate),
          TableOf(SubSeq(years, 1, 2), BaseTemplate, BaseTemplate),
          TableOf(SubSeq(years, 1, 1), BaseTemplate, BaseTemplate)}

-----------------------------------------------------------------------------
(* data_to_tree(df) *)

TreeInit ==
  /\ tree_df \in TreeTables
  /\ tree_pc = "start" /\ tree_stage = "start" /\ tree_rows = <<>>
  /\ tree_cat = <<>> /\ tree_meta = <<>> /\ tree_error = "none"
  /\ MapIdle /\ LoadIdle

\* One block of the function has run: df as it left it
TreeAdvance(r, pc) ==
  /\ r.error = "none"
  /\ tree_pc' = pc
  /\ tree_stage' = r.stage
  /\ tree_rows' = r.df
  /\ UNCHANGED <<tree_df, tree_cat, tree_meta, tree_error>>
  /\ UNCHANGED <<map_vars, load_vars>>

\* A block raised: the call ends with df as the block left it
TreeRaise(r) ==
  /\ r.error # "none"
  /\ tree_pc' = "raised"
  /\ tree_stage' = r.stage
  /\ tree_error' = r.error
  /\ tree_rows' = r.df
  /\ UNCHANGED <<tree_df, tree_cat, tree_meta>>
  /\ UNCHANGED <<map_vars, load_vars>>

\* metadata, age groups, category order, fractions per year
TreeFrac == tree_pc = "start" /\ TreeAdvance(FracStep(tree_df), "frac")

TreeFracRaise == tree_pc = "start" /\ TreeRaise(FracStep(tree_df))

\* for each age group, an entry for deaths occurring at older ages
TreeOlder == tree_pc = "frac" /\ TreeAdvance(OlderStep(tree_rows), "older")

TreeOlderRaise == tree_pc = "frac" /\ TreeRaise(OlderStep(tree_rows))

\* sort within year, age and category; cumulative fraction
TreeCum == tree_pc = "older" /\ TreeAdvance(CumStep(tree_rows), "cum")

TreeCumRaise == tree_pc = "older" /\ TreeRaise(CumStep(tree_rows))

\* shift cumFrac to align with the trunk of the previous age
TreeAlign ==
  tree_pc = "cum" /\ TreeAdvance(AlignStep(tree_rows, ages_sorted(tree_rows)), "aligned")

TreeAlignRaise == tree_pc = "cum" /\ TreeRaise(AlignStep(tree_rows, ages_sorted(tree_rows)))

\* return dis, cat, meta
TreeReturn ==
  /\ tree_pc = "aligned"
  /\ LET r == ReturnStep(tree_df, tree_rows, ages_sorted(tree_rows))
     IN  /\ tree_rows' = r.dis
         /\ tree_cat' = r.cat
         /\ tree_meta' = r.meta
  /\ tree_pc' = "returned"
  /\ tree_stage' = "returned"
  /\ UNCHANGED <<tree_df, tree_error>>
  /\ UNCHANGED <<map_vars, load_vars>>

TreeNext ==
  \/ TreeFrac \/ TreeFracRaise
  \/ TreeOlder \/ TreeOlderRaise
  \/ TreeCum \/ TreeCumRaise
  \/ TreeAlign \/ TreeAlignRaise
  \/ TreeReturn

SpecTree == TreeInit /\ [][TreeNext]_vars

-----------------------------------------------------------------------------
(* Properties of the classification *)

SeqToSet(s) == {s[i] : i \in 1..Len(s)}

\* The declared intervals of one revision, each with its category
DeclaredRanges(icd_version) ==
  UNION {{[category |-> cat, range |-> ICD_RANGES[icd_version][cat][i]] :
            i \in 1..Len(ICD_RANGES[icd_version][cat])} : cat \in DOMAIN ICD_CATEGORIES}

\* Two closed intervals of strings share a string
Intersect(r1, r2) == StrLeq(r1.lo, r2.hi) /\ StrLeq(r2.lo, r1.hi)

\* C1: in the revision being classified, no two range tokens of different
\* categories have intersecting normalized intervals
\* [left_pad_code(start), left_pad_code(end) + "z"], over the whole declared
\* table.  ICD-8 declares "444.2" (digestive) inside "390-459" (circulatory).
C1_DeclaredRangesDisjoint ==
  \A a, b \in DeclaredRanges(map_version) :
      a.category # b.category => ~Intersect(a.range, b.range)

InfectiousCodes(t) == {t[1], t[2], t[3]}
CancerCodes(t) == {t[4], t[5]}

ScenarioClassified(t) ==
  /\ map_pc = "returned"
  /\ \A c \in InfectiousCodes(t) : map_category[c] = "Infectious diseases"
  /\ \A c \in CancerCodes(t) : map_category[c] = "Cancer"
  /\ \A c \in SeqToSet(t) : map_category[c] # OTHER_LABEL

\* C2 as stated: revision 9 classifies the codes "001", "009", "139" as
\* infectious diseases and "140", "239" as cancer, none left at the default.
C2_ThreeDigitScenario ==
  (map_pc # "call" /\ map_version = 9 /\ map_df = ThreeDigitTable)
      => ScenarioClassified(ThreeDigitTable)

\* C2 amended: revision 9 classifies the four-digit codes "0010", "0090",
\* "1390" as infectious diseases and "1400", "2390" as cancer, none left at
\* the default category.
C2_FourDigitScenario ==
  (map_pc # "call" /\ map_version = 9 /\ map_df = FourDigitTable)
      => ScenarioClassified(FourDigitTable)

C2_Witness ==
  map_pc = "returned" /\ map_version = 9 /\ map_df = FourDigitTable

\* The categories with a token of the revision whose interval holds the
\* normalized form of code c
ContainingCategories(c, icd_version) ==
  {cat \in DOMAIN ICD_CATEGORIES :
      \E i \in 1..Len(ICD_RANGES[icd_version][cat]) :
          InRange(NormalizeCode(c, icd_version).val, ICD_RANGES[icd_version][cat][i])}

Rotate(s, k) == [i \in 1..Len(s) |-> s[((i + k - 1) % Len(s)) + 1]]
Reverse(s) == [i \in 1..Len(s) |-> s[Len(s) + 1 - i]]

\* Iteration orders of the categories: the rotations of the declared order
\* and of its reverse.  Every two categories come in both orders.
CategoryOrders ==
  {Rotate(CategoryNames, k) : k \in 0..5} \cup {Rotate(Reverse(CategoryNames), k) : k \in 0..5}

\* C3: a code whose normalized form lies in tokens of two different
\* categories makes the call fail with the assertion error, never return;
\* when the call returns, every code has the one category with a token
\* holding its normalized form, or the default when there is none; and
\* whether the call returns, and with which categories, is the same for
\* every iteration order of the categories.
C3_NoPrecedence ==
  map_pc # "call" =>
    LET codes == SeqToSet(map_df)
        normal == \A c \in codes : NormalizeCode(c, map_version).ok
    IN  /\ (normal /\ \E c \in codes : Cardinality(ContainingCategories(c, map_version)) >= 2)
              => (map_pc = "raised" /\ map_error = "AssertionError")
        /\ map_pc = "returned" =>
              \A c \in codes :
                  IF ContainingCategories(c, map_version) = {}
                  THEN map_category[c] = OTHER_LABEL
                  ELSE ContainingCategories(c, map_version) = {map_category[c]}
        /\ \A order \in CategoryOrders :
              LET r == ClassifyInOrder(map_df, map_version, order)
              IN  /\ (r.error = "none") <=> (map_pc = "returned")
                  /\ r.error = "none" => r.category = map_category

\* The call failed on a code that lies in "444.2" and in "390-459" of ICD-8
C3_Witness ==
  /\ map_pc = "raised" /\ map_error = "AssertionError" /\ map_version = 8
  /\ \E c \in SeqToSet(map_df) : Cardinality(ContainingCategories(c, map_version)) >= 2

\* A valid code: before ICD-6 a leading chapter number in 1..999 and any
\* suffix, from ICD-6 on exactly four decimal digits
IsValidCode(c, icd_version) ==
  IF icd_version >= 6
  THEN Len(c) = 4 /\ \A i \in 1..4 : IsDigit(c[i])
  ELSE /\ DigitRunLen(c) > 0
       /\ ToInt(SubSeq(c, 1, DigitRunLen(c))) \in 1..999

\* The chapter number: the leading decimal digit run, after dropping the
\* last digit from ICD-6 on
ChapterNumber(c, icd_version) ==
  IF icd_version >= 6 THEN ToInt(DropLast(c))
  ELSE ToInt(SubSeq(c, 1, DigitRunLen(c)))

\* C4: for two valid codes of the revision, a smaller chapter number gives
\* a lexicographically smaller normalized code.
C4_OrderPreserving ==
  map_pc = "returned" =>
    \A a, b \in SeqToSet(map_df) :
        (/\ IsValidCode(a, map_version) /\ IsValidCode(b, map_version)
         /\ ChapterNumber(a, map_version) < ChapterNumber(b, map_version))
            => StrLess(map_lp_code[a], map_lp_code[b])

\* Codes "9" and "0010" of ICD-5: chapter 9 before chapter 10, while the
\* raw strings sort the other way
C4_Witness ==
  /\ map_pc = "returned" /\ map_version = 5
  /\ map_df = << <<"9">>, <<"0","0","1","0">> >>
  /\ map_lp_code[<<"9">>] = <<"0","0","9">>
  /\ map_lp_code[<<"0","0","1","0">>] = <<"0","1","0">>

-----------------------------------------------------------------------------
(* Properties of the per-year aggregation *)

\* The batch of the last step was classified: it passed or failed the gate
\* on the default category
BatchClassified == load_stage \in {"appended", "category_gate"}

\* Fewer than 35 in 100 of the batch's rows are in the default category
RowFractionBelowCeiling ==
  100 * Cardinality({i \in 1..Len(df_year) : df_year[i].category = OTHER_LABEL})
      < 35 * Len(df_year)

\* Fewer than 35 in 100 of the batch's deaths are in the default category
DeathFractionBelowCeiling ==
  100 * SumN(SelectSeq(df_year, LAMBDA r : r.category = OTHER_LABEL)) < 35 * SumN(df_year)

\* C5 as stated: a classified batch is appended exactly when the fraction
\* of its death count (sum of n) in "Other diseases" is below 0.35, and the
\* run aborts otherwise.
C5_DeathCountGate ==
  BatchClassified =>
    /\ (load_stage = "appended") <=> DeathFractionBelowCeiling
    /\ (load_pc = "raised") <=> ~DeathFractionBelowCeiling

\* C5 amended: a classified batch is appended exactly when the fraction of
\* its rows in "Other diseases" is below 0.35; otherwise the run aborts
\* with the assertion error.  The step that appends adds the batch's
\* aggregate as the last element of out and keeps the batches of earlier
\* years and files; the step that aborts leaves out as it was.
C5_RowCountGate ==
  /\ [](BatchClassified =>
          /\ (load_stage = "appended") <=> RowFractionBelowCeiling
          /\ (load_pc = "raised") <=> ~RowFractionBelowCeiling
          /\ load_stage = "appended" =>
                /\ Len(out) >= 1
                /\ \A r \in out[Len(out)] : r.year = df_year[1].year
          /\ load_pc = "raised" => load_error = "AssertionError")
  /\ [][/\ load_stage' = "appended" => (Len(out') = Len(out) + 1 /\ SubSeq(out', 1, Len(out)) = out)
        /\ load_stage' # "appended" => out' = out]_vars

\* The run aborted on a batch with 35 in 100 or more of its rows in the
\* default category, after a batch of an earlier file was appended
C5_Witness ==
  /\ load_stage = "category_gate" /\ load_pc = "raised"
  /\ \E i \in 1..Len(df_year) : df_year[i].category = OTHER_LABEL
  /\ \E i \in 1..Len(df_year) : df_year[i].category # OTHER_LABEL
  /\ Len(out) = 1 /\ file_name = Len(file_names_20th_century)

CodeA == <<"0","0","2","0">>
CodeB == <<"0","0","3","0">>
CodeC == <<"0","0","2","1">>

\* C6: of an appended batch, the kept codes are min(top_n, number of codes)
\* codes none of which has a smaller total count than a code left out; a
\* row of a kept code keeps its own description and every other row has
\* "<category>, other"; so each (age band, category) with a row of a code
\* not kept has exactly one output row labelled "<category>, other", whose
\* count is the sum of the batch's rows with that age band, category and
\* label.  With top_n = 1 and 0020: 100, 0030: 50, 0021: 10, all infectious
\* diseases of one age band, the output is the row of 0020 with 100 and the
\* row "Infectious diseases, other" with 60.
C6_TopNMerge ==
  load_stage = "appended" =>
    LET total == CodeTotals(df_year)
        codes == DOMAIN total
        agg == out[Len(out)]
        others == {i \in 1..Len(df_year) : df_year[i].code \notin kept_codes}
    IN  /\ kept_codes \subseteq codes
        /\ Cardinality(kept_codes) = IF top_n < Cardinality(codes) THEN top_n ELSE Cardinality(codes)
        /\ \A c \in kept_codes, d \in codes \ kept_codes : total[c] >= total[d]
        /\ \A i \in 1..Len(df_year) :
              df_year[i].desc = IF df_year[i].code \in kept_codes
                                THEN DescOf(df_year[i].code, Descriptions(DescriptionSheet))
                                ELSE df_year[i].category \o ", other"
        /\ \A i \in others :
              LET rows == {r \in agg : /\ r.age = df_year[i].age
                                       /\ r.category = df_year[i].category
                                       /\ r.desc = df_year[i].category \o ", other"}
              IN  /\ Cardinality(rows) = 1
                  /\ \A r \in rows :
                        r.n = SumN(SelectSeq(df_year, LAMBDA s : /\ s.age = r.age
                                                                 /\ s.category = r.category
                                                                 /\ s.desc = r.desc))
                  /\ \A r \in rows : r.n >= SumN(SelectSeq(df_year, LAMBDA s :
                                              /\ s.age = r.age /\ s.category = r.category
                                              /\ s.code \notin kept_codes))
        /\ (/\ top_n = 1
            /\ total = (CodeA :> 100 @@ CodeB :> 50 @@ CodeC :> 10)
            /\ \A i \in 1..Len(df_year) : df_year[i].age = <<"0","1","-","0","4">>)
              => agg = {[year |-> 1915, age |-> <<"0","1","-","0","4">>,
                         category |-> "Infectious diseases", desc |-> "Typhoid fever", n |-> 100],
                        [year |-> 1915, age |-> <<"0","1","-","0","4">>,
                         category |-> "Infectious diseases",
                         desc |-> "Infectious diseases, other", n |-> 60]}

\* top_n = 1 over 0020: 100, 0030: 50, 0021: 10: the two codes not kept are
\* one row of 60
C6_Witness ==
  /\ load_stage = "appended" /\ top_n = 1
  /\ CodeTotals(df_year) = (CodeA :> 100 @@ CodeB :> 50 @@ CodeC :> 10)
  /\ kept_codes = {CodeA}
  /\ [year |-> 1915, age |-> <<"0","1","-","0","4">>, category |-> "Infectious diseases",
      desc |-> "Infectious diseases, other", n |-> 60] \in out[Len(out)]

-----------------------------------------------------------------------------
(* Properties of the tree layout *)

\* The years of the table passed in whose rows have a positive total
PositiveYears == {y \in {tree_df[i].year : i \in 1..Len(tree_df)} : SumN(YearGroup(tree_df, y)) > 0}

\* Every year of the table passed in has a positive total
AllTotalsPositive == \A i \in 1..Len(tree_df) : tree_df[i].year \in PositiveYears

\* Every category of the table passed in has a place in CATEGORY_ORDER
AllCategoriesKnown == \A i \in 1..Len(tree_df) : tree_df[i].category \in DOMAIN CATEGORY_ORDER

\* The sum check has been reached: tree_rows carries the fractions
FractionsComputed == tree_pc = "frac" \/ (tree_pc = "raised" /\ tree_stage = "frac_sum")

\* The fractions of every year with a positive total sum to 1
YearFractionsSumToOne ==
  \A y \in PositiveYears : Sum(FracCol(YearGroup(tree_rows, y))) = [num |-> 1, den |-> 1]

\* C7 as stated: for every year of the table the fractions n / (the year's
\* total) sum to 1, and the check of the total of all fractions against
\* the number of configured years passes for every table whose yearly
\* totals are all positive.
C7_SumCheckPassesOnPositiveTotals ==
  /\ FractionsComputed => YearFractionsSumToOne
  /\ (tree_pc # "start" /\ AllCategoriesKnown /\ AllTotalsPositive) => tree_stage # "frac_sum"

\* The table passed in has at least two years
SeveralYears == Cardinality({tree_df[i].year : i \in 1..Len(tree_df)}) >= 2

\* C7 amended: for a table of at least two years, for every year of the
\* table with a positive total the fractions n / (the year's total) sum to
\* 1; the check compares the total of all fractions with the number of
\* configured years, so it passes exactly when the number of years of the
\* table with a positive total is the number of configured years, and
\* raises AssertionError otherwise; the assignment of the fractions itself
\* does not raise.
C7_SumCheckCountsYears ==
  SeveralYears =>
    /\ FractionsComputed => YearFractionsSumToOne
    /\ (tree_pc # "start" /\ AllCategoriesKnown) =>
          /\ (tree_stage = "frac_sum") <=> (Cardinality(PositiveYears) # Len(years))
          /\ tree_stage = "frac_sum" => (tree_pc = "raised" /\ tree_error = "AssertionError")
          /\ tree_stage # "frac_assign"

\* The check passed on a table of the configured years whose years have
\* different totals
C7_Witness ==
  /\ tree_pc = "frac"
  /\ Cardinality(PositiveYears) = Len(years)
  /\ \E y, z \in PositiveYears : SumN(YearGroup(tree_df, y)) # SumN(YearGroup(tree_df, z))
  /\ \E i \in 1..Len(tree_rows) : tree_rows[i].frac = [num |-> 2, den |-> 5]

\* The age of a row of the table passed in, once "<1" is renamed
BandOf(r) == IF r.age = <<"<","1">> THEN <<"0","0","-","0","1">> ELSE r.age

\* 1 - (the deaths of the year in the bands up to `age`) / (the year's total)
ResidualAfter(year, age) ==
  LET g == YearGroup(tree_df, year)
  IN  Ratio(SumN(g) - SumN(SelectSeq(g, LAMBDA r : StrLeq(BandOf(r), age))), SumN(g))

\* The trunk rows of a year and band
TrunkRows(year, age) ==
  {i \in 1..Len(tree_rows) :
      tree_rows[i].year = year /\ tree_rows[i].age = age /\ tree_rows[i].catIdx = 0}

ExampleTable == TableOf(years, ExampleTemplate, ExampleTemplate)

\* C8: once the trunk rows are added, every configured year has exactly
\* one row with catIdx 0 per age band, whose fraction is 1 minus the sum of
\* the fractions of the bands up to it in sorted order (the residual of the
\* previous band minus the fraction of this band).  Bands "00-01" with
\* fraction 0.6 and "01-05" with fraction 0.3 have trunk rows of 0.4 and
\* 0.1.
C8_TrunkResiduals ==
  tree_pc = "older" =>
    /\ \A k \in 1..Len(years), a \in 1..Len(ages_sorted(tree_rows)) :
          /\ Cardinality(TrunkRows(years[k], ages_sorted(tree_rows)[a])) = 1
          /\ \A i \in TrunkRows(years[k], ages_sorted(tree_rows)[a]) :
                /\ tree_rows[i].frac = ResidualAfter(years[k], ages_sorted(tree_rows)[a])
                /\ tree_rows[i].frac =
                     Minus(IF a = 1 THEN [num |-> 1, den |-> 1]
                           ELSE ResidualAfter(years[k], ages_sorted(tree_rows)[a - 1]),
                           Sum(FracCol(SelectSeq(tree_rows,
                                 LAMBDA r : /\ r.year = years[k]
                                            /\ r.age = ages_sorted(tree_rows)[a]
                                            /\ r.catIdx # 0))))
    /\ Cardinality({i \in 1..Len(tree_rows) : tree_rows[i].catIdx = 0})
          = Len(years) * Len(ages_sorted(tree_rows))
    /\ tree_df = ExampleTable =>
          \A k \in 1..Len(years) :
             /\ \A i \in TrunkRows(years[k], <<"0","0","-","0","1">>) :
                   tree_rows[i].frac = [num |-> 2, den |-> 5]
             /\ \A i \in TrunkRows(years[k], <<"0","1","-","0","5">>) :
                   tree_rows[i].frac = [num |-> 1, den |-> 10]

\* The trunk rows of the example are there: 0.4 after "00-01", 0.1 after
\* "01-05", 0 after "80+"
C8_Witness ==
  /\ tree_pc = "older" /\ tree_df = ExampleTable
  /\ \E i \in TrunkRows(1915, <<"0","0","-","0","1">>) :
        tree_rows[i].frac = [num |-> 2, den |-> 5] /\ tree_rows[i].desc = "older than 1 years"
  /\ \E i \in TrunkRows(1915, <<"0","1","-","0","5">>) :
        tree_rows[i].frac = [num |-> 1, den |-> 10] /\ tree_rows[i].desc = "older than 5 years"
  /\ \E i \in TrunkRows(1915, <<"8","0","+">>) :
        tree_rows[i].frac = [num |-> 0, den |-> 1] /\ tree_rows[i].desc = "Impossible!"

\* The cumulative fractions have been computed and checked
CumulatedOrRaised == tree_pc = "cum" \/ (tree_pc = "raised" /\ tree_stage \in {"cum_min", "cum_max"})

\* 0 < x < 1
InOpenUnitInterval(x) == 0 < x.num /\ x.num < x.den

\* 1.0e-9 < x < 1 + 1.0e-9
WithinTolerance(x) ==
  /\ x.num > x.den \div 1000000000
  /\ x.num - x.den <= (x.den - 1) \div 1000000000

\* C9 as stated: the call gets past the check of the cumulative fractions
\* only when every one of them is strictly between 0 and 1, and raises
\* when some is <= 0 or >= 1.
C9_OpenUnitInterval ==
  CumulatedOrRaised =>
    ((tree_pc = "cum") <=> \A i \in 1..Len(tree_rows) : InOpenUnitInterval(tree_rows[i].cumFrac))

\* C9 amended: the call gets past the check of the cumulative fractions
\* exactly when every one of them is above 1e-9 and below 1 + 1e-9, and
\* raises AssertionError otherwise; the value 1 is accepted, and in every
\* year the last row of the youngest band has it.
C9_ToleranceInterval ==
  CumulatedOrRaised =>
    /\ (tree_pc = "cum") <=> \A i \in 1..Len(tree_rows) : WithinTolerance(tree_rows[i].cumFrac)
    /\ tree_pc = "raised" => tree_error = "AssertionError"
    /\ tree_pc = "cum" =>
          \A k \in 1..Len(years) :
             \E i \in 1..Len(tree_rows) :
                /\ tree_rows[i].year = years[k]
                /\ tree_rows[i].age = ages_sorted(tree_rows)[1]
                /\ tree_rows[i].cumFrac = [num |-> 1, den |-> 1]
                /\ \A j \in (i + 1)..Len(tree_rows) :
                      ~(tree_rows[j].year = years[k] /\ tree_rows[j].age = tree_rows[i].age)

\* The check was passed with a cumulative fraction of 1, and with others
\* inside the interval
C9_Witness ==
  /\ tree_pc = "cum"
  /\ \E i \in 1..Len(tree_rows) : tree_rows[i].cumFrac = [num |-> 1, den |-> 1]
  /\ \E i \in 1..Len(tree_rows) : tree_rows[i].cumFrac = [num |-> 3, den |-> 5]

\* The trunk row of a year and band after the alignment
TrunkOf(year, age) == tree_rows[CHOOSE i \in TrunkRows(year, age) : TRUE]

\* The cumulative fraction of row i within its year and band, unshifted
UnshiftedCumFrac(i) ==
  Sum(FracCol(SelectSeq(SubSeq(tree_rows, 1, i),
                        LAMBDA r : r.year = tree_rows[i].year /\ r.age = tree_rows[i].age)))

\* The fractions left of the trunk in the bands of a year younger than `age`
LeftOfYounger(year, age) ==
  Sum(FracCol(SelectSeq(tree_rows,
                        LAMBDA r : r.year = year /\ StrLess(r.age, age) /\ r.catIdx < 0)))

\* C10: after align_trunk, in every year the rows of the youngest band
\* have leftFrac 0 and rightFrac 1, and the rows of every other band b,
\* with a the band before it in sorted order, have leftFrac = cumFrac -
\* frac of a's trunk row and rightFrac = cumFrac of a's trunk row; the
\* shift added to the cumFrac of a band's rows is the sum of the fractions
\* left of the trunk of all younger bands.
C10_BundleMeetsTrunk ==
  tree_pc = "aligned" =>
    \A i \in 1..Len(tree_rows) :
       LET ages == ages_sorted(tree_rows)
           b == AgeIndex(ages, tree_rows[i].age)
       IN  /\ b = 1 =>
                /\ tree_rows[i].leftFrac = [num |-> 0, den |-> 1]
                /\ tree_rows[i].rightFrac = [num |-> 1, den |-> 1]
           /\ b > 1 =>
                /\ tree_rows[i].leftFrac =
                     Minus(TrunkOf(tree_rows[i].year, ages[b - 1]).cumFrac,
                           TrunkOf(tree_rows[i].year, ages[b - 1]).frac)
                /\ tree_rows[i].rightFrac = TrunkOf(tree_rows[i].year, ages[b - 1]).cumFrac
           /\ tree_rows[i].cumFrac =
                Plus(UnshiftedCumFrac(i), LeftOfYounger(tree_rows[i].year, tree_rows[i].age))

\* The example is aligned: the bundle of "01-05" spans 0.2 to 0.6, the
\* trunk segment of "00-01", and the bundle of "80+" spans 0.3 to 0.4
C10_Witness ==
  /\ tree_pc = "aligned" /\ tree_df = ExampleTable
  /\ \E i \in 1..Len(tree_rows) :
        /\ tree_rows[i].age = <<"0","1","-","0","5">>
        /\ tree_rows[i].leftFrac = [num |-> 1, den |-> 5]
        /\ tree_rows[i].rightFrac = [num |-> 3, den |-> 5]
  /\ \E i \in 1..Len(tree_rows) :
        /\ tree_rows[i].age = <<"8","0","+">>
        /\ tree_rows[i].leftFrac = [num |-> 3, den |-> 10]
        /\ tree_rows[i].rightFrac = [num |-> 2, den |-> 5]

=============================================================================
